---- MODULE Spec2Model ----
(***************************************************************************)
(* Photo Search API: the three ingestion handlers (ingest_photos,          *)
(* ingest_upload, ingest_lrcat) writing to the "catalog" and "photo"       *)
(* collections, and the read handlers (search_photos, get_photo).          *)
(*                                                                         *)
(* Every database call is one atomic step; a handler is a sequence of      *)
(* such steps, so handlers of different requests interleave between        *)
(* their database calls.                                                   *)
(***************************************************************************)
EXTENDS Integers, Sequences, FiniteSets, TLC

\* ------------------------------------------------------------------ bounds
MaxCalls == 2          \* ingestion requests issued in one behaviour
MaxItems == 2          \* records in one batch
MaxStore == 3          \* photos in a store the read handlers are run on
MaxTime  == 2          \* distinct import timestamps in such a store

Procs == {1, 2}        \* request workers running handlers concurrently

\* ------------------------------------------------------------- primitives
None == -1             \* Python's None (identifiers are >= 1, ratings >= 0)

RECURSIVE LStrip(_, _)
LStrip(s, c) == IF s # <<>> /\ Head(s) = c THEN LStrip(Tail(s), c) ELSE s

RECURSIVE RStrip(_, _)
RStrip(s, c) ==
    IF s # <<>> /\ s[Len(s)] = c THEN RStrip(SubSeq(s, 1, Len(s) - 1), c) ELSE s

\* str.strip('.')
Strip(s, c) == RStrip(LStrip(s, c), c)

\* x or y, on strings (the empty string is falsy)
OrElse(x, y) == IF x # <<>> THEN x ELSE y

DigitValue == [d \in {"0", "1", "2", "3", "4", "5", "6", "7", "8", "9"} |->
                 CASE d = "0" -> 0 [] d = "1" -> 1 [] d = "2" -> 2 [] d = "3" -> 3
                   [] d = "4" -> 4 [] d = "5" -> 5 [] d = "6" -> 6 [] d = "7" -> 7
                   [] d = "8" -> 8 [] d = "9" -> 9]

\* _coerce_int on a one-character field: int(val), None when empty or unparsable
_coerce_int(val) ==
    IF val = "" THEN None
    ELSE IF val \in DOMAIN DigitValue THEN DigitValue[val] ELSE None

\* Field(None, ge=0, le=5) of Photo.rating
RatingMin == 0
RatingMax == 5
RatingValid(r) == r = None \/ (r >= RatingMin /\ r <= RatingMax)

\* ------------------------------------------------------------ input sets
\* "" is the absent (or empty) catalog form field
CatalogNames == {"", "a"}

\* a record's own catalog reference: absent, or some identifier string
OwnRefs == {None, 1}

\* schemas.Photo, as far as the handlers read or write it
Photo(filename, catalog_id, rating, import_date) ==
    [filename |-> filename, catalog_id |-> catalog_id,
     rating |-> rating, import_date |-> import_date]

\* schemas.Catalog
Catalog(name, source) == [name |-> name, source |-> source]

\* One record of an uploaded JSON array, or one row of an uploaded CSV table:
\* a plain record, and records that differ from it in one field.
PlainRecord == [filename |-> <<"a">>, name |-> <<>>, catalog_id |-> None, rating |-> "3"]
RawRecords ==
    {PlainRecord,
     [PlainRecord EXCEPT !.filename = <<>>],
     [PlainRecord EXCEPT !.catalog_id = 1],
     [PlainRecord EXCEPT !.rating = "9"],
     [PlainRecord EXCEPT !.rating = "x"]}

\* One row of the relational catalog (AgLibraryFile joined with Adobe_images)
PlainRow == [baseName |-> <<"a">>, extension |-> <<".", "j">>, rating |-> "3"]
RawRows ==
    {PlainRow,
     [PlainRow EXCEPT !.baseName = <<>>, !.extension = <<>>],
     [PlainRow EXCEPT !.rating = "9"]}

SeqsUpTo(S, n) == UNION {[1..k -> S] : k \in 0..n}

\* ---------------------------------------------------------------- state
VARIABLES
    catalog,       \* db["catalog"]: the documents in insertion order, _id = index
    photo,         \* db["photo"]:   the documents in insertion order, _id = index
    pc,            \* where each worker's handler stands
    call,          \* the request a worker is serving
    existing,      \* the handler's local `existing` (None: the lookup missed)
    catalog_id,    \* the handler's local `catalog_id`
    items,         \* the handler's local `items` / `rows` / payload.items
    inserted_ids,  \* the handler's local `inserted_ids`
    result,        \* the response, or the error the handler raised
    ncalls,        \* requests issued so far; also the wall clock's reading
    pages,         \* search_photos: the pages a client has fetched so far
    fetched        \* get_photo: the last response

vars == <<catalog, photo, pc, call, existing, catalog_id, items, inserted_ids,
          result, ncalls, pages, fetched>>

readVars == <<pages, fetched>>
storeVars == <<catalog, photo>>
callVars == <<pc, call, existing, catalog_id, items, inserted_ids, result, ncalls>>

NoSearch == [rating |-> None, page_size |-> 0, total |-> 0, got |-> <<>>]
NoFetch == [wellformed |-> FALSE, oid |-> 0, status |-> 0, detail |-> "pending"]
NoCall == [kind |-> "none", catalog |-> "", own |-> <<>>]
NoResult == [status |-> 0, detail |-> "pending", inserted |-> 0, ids |-> <<>>]

\* raise HTTPException(status_code, detail)
HTTPException(status, detail) ==
    [status |-> status, detail |-> detail, inserted |-> 0, ids |-> <<>>]

\* database.create_document: insert one document, return the new _id as a string
create_document(coll, doc) == Append(coll, doc)
new_id(coll) == Len(coll) + 1

\* db[...].find_one({"name": name}): the _id of a stored match, else None
find_one_by_name(name) ==
    IF \E i \in DOMAIN catalog : catalog[i].name = name
    THEN CHOOSE i \in DOMAIN catalog :
            /\ catalog[i].name = name
            /\ \A j \in DOMAIN catalog : catalog[j].name = name => i <= j
    ELSE None

\* datetime.utcnow(): requests are stamped with the time they arrived
utcnow == ncalls

Init ==
    /\ catalog = <<>>
    /\ photo = <<>>
    /\ pc = [p \in Procs |-> "idle"]
    /\ call = [p \in Procs |-> NoCall]
    /\ existing = [p \in Procs |-> None]
    /\ catalog_id = [p \in Procs |-> None]
    /\ items = [p \in Procs |-> <<>>]
    /\ inserted_ids = [p \in Procs |-> <<>>]
    /\ result = [p \in Procs |-> NoResult]
    /\ ncalls = 0
    /\ pages = NoSearch
    /\ fetched = NoFetch

\* return {"inserted": len(inserted_ids), "ids": inserted_ids}
Response(ids) == [status |-> 200, detail |-> "ok", inserted |-> Len(ids), ids |-> ids]

\* What a handler has computed once it holds its catalog_id and before its
\* first insert: either it is over (an error raised, or nothing to insert), or
\* it enters its insert loop over `items`.
\* `own` is what an upload's parse read as each record's own catalog reference:
\* rec.get("catalog_id") in the JSON branch; the CSV branch reads none.
Raise(error) ==
    [over |-> TRUE, result |-> error, items |-> <<>>, own |-> <<>>]
Loop(its) ==
    IF its = <<>>
    THEN [over |-> TRUE, result |-> Response(<<>>), items |-> <<>>,
          own |-> <<>>]
    ELSE [over |-> FALSE, result |-> NoResult, items |-> its,
          own |-> <<>>]

\* ------------------------------------------------------ catalog resolver
\* Lookup with the filter lost: the lookup never matches
LookupNothing(looks, name) == None

\*   existing = db["catalog"].find_one({"name": name})
\* `looks`: the handler has a name to look up (ingest_lrcat always has)
Lookup(looks, name) == IF looks THEN find_one_by_name(name) ELSE None

\* worker p is free to take a request
Free(p) == pc[p] \in {"idle", "done"} /\ ncalls < MaxCalls

\* A request arrives at worker p and runs up to its first database write:
\*   if existing: catalog_id = str(existing.get("_id"))
\* and then what the handler computes next (`out`); on a miss it stands
\* before create_document("catalog", ...).
Resolve(p, c, looks, its, out) ==
    LET found == Lookup(looks, c.catalog) IN
    /\ ncalls' = ncalls + 1
    /\ existing' = [existing EXCEPT ![p] = found]
    /\ catalog_id' = [catalog_id EXCEPT ![p] = found]
    /\ inserted_ids' = [inserted_ids EXCEPT ![p] = <<>>]
    /\ IF looks /\ found = None
       THEN /\ pc' = [pc EXCEPT ![p] = "create"]
            /\ call' = [call EXCEPT ![p] = c]
            /\ items' = [items EXCEPT ![p] = its]
            /\ result' = [result EXCEPT ![p] = NoResult]
       ELSE /\ pc' = [pc EXCEPT ![p] = IF out.over THEN "done" ELSE "persist"]
            /\ call' = [call EXCEPT ![p] = [c EXCEPT !.own = out.own]]
            /\ items' = [items EXCEPT ![p] = out.items]
            /\ result' = [result EXCEPT ![p] = out.result]
    /\ UNCHANGED <<storeVars, readVars>>

\* Create as an atomic upsert: a Catalog stored since the lookup is reused
CreateUpsert(p, out) ==
    LET now == find_one_by_name(call[p].catalog)
        cid == IF now # None THEN now ELSE new_id(catalog)
    IN
    /\ pc[p] = "create"
    /\ catalog' = IF now # None THEN catalog
                  ELSE create_document(catalog, Catalog(call[p].catalog, call[p].source))
    /\ catalog_id' = [catalog_id EXCEPT ![p] = cid]
    /\ pc' = [pc EXCEPT ![p] = IF out.over THEN "done" ELSE "persist"]
    /\ call' = [call EXCEPT ![p].own = out.own]
    /\ items' = [items EXCEPT ![p] = out.items]
    /\ result' = [result EXCEPT ![p] = out.result]
    /\ UNCHANGED <<photo, readVars, existing, inserted_ids, ncalls>>

\* else: catalog_id = create_document("catalog", Catalog(name=..., source=...))
\* and then what the handler computes next (`out`)
Create(p, out) ==
    /\ pc[p] = "create"
    /\ catalog' = create_document(catalog, Catalog(call[p].catalog, call[p].source))
    /\ catalog_id' = [catalog_id EXCEPT ![p] = new_id(catalog)]
    /\ pc' = [pc EXCEPT ![p] = IF out.over THEN "done" ELSE "persist"]
    /\ call' = [call EXCEPT ![p].own = out.own]
    /\ items' = [items EXCEPT ![p] = out.items]
    /\ result' = [result EXCEPT ![p] = out.result]
    /\ UNCHANGED <<photo, readVars, existing, inserted_ids, ncalls>>

\* Insert with the identifiers collected newest first
InsertFront(p, data) ==
    LET ids == <<new_id(photo)>> \o inserted_ids[p] IN
    /\ photo' = create_document(photo, data)
    /\ inserted_ids' = [inserted_ids EXCEPT ![p] = ids]
    /\ IF Len(ids) = Len(items[p])
       THEN /\ result' = [result EXCEPT ![p] = Response(ids)]
            /\ pc' = [pc EXCEPT ![p] = "done"]
       ELSE UNCHANGED <<result, pc>>
    /\ UNCHANGED <<catalog, readVars, call, existing, catalog_id, items, ncalls>>

\* new_id = create_document("photo", data); inserted_ids.append(new_id)
\* and, after the last item, the return
Insert(p, data) ==
    LET ids == Append(inserted_ids[p], new_id(photo)) IN
    /\ photo' = create_document(photo, data)
    /\ inserted_ids' = [inserted_ids EXCEPT ![p] = ids]
    /\ IF Len(ids) = Len(items[p])
       THEN /\ result' = [result EXCEPT ![p] = Response(ids)]
            /\ pc' = [pc EXCEPT ![p] = "done"]
       ELSE UNCHANGED <<result, pc>>
    /\ UNCHANGED <<catalog, readVars, call, existing, catalog_id, items, ncalls>>

\* ------------------------------------------------------- POST /api/ingest
\* The request body is validated into PhotoIngest before the handler runs:
\* every item is a Photo (rating None or 0..5, import_date defaulted).
PayloadItems(now) ==
    {Photo(<<"a">>, c, 3, now) : c \in OwnRefs} \cup {Photo(<<>>, None, 3, now)}

\* Backfill without the test of the record's own reference
BackfillAlways(data, cid) ==
    IF cid # None THEN [data EXCEPT !.catalog_id = cid] ELSE data

\* data = item.model_dump()
\* if catalog_id and not data.get("catalog_id"): data["catalog_id"] = catalog_id
Backfill(data, cid) ==
    IF cid # None /\ data.catalog_id = None
    THEN [data EXCEPT !.catalog_id = cid] ELSE data

ingest_photos(p) ==
    /\ Free(p)
    /\ \E name \in CatalogNames, its \in SeqsUpTo(PayloadItems(ncalls + 1), MaxItems) :
        Resolve(p, [kind |-> "ingest", catalog |-> name, source |-> "lightroom",
                   own |-> <<>>],
                name # "", its, Loop(its))

ingest_photos_create(p) ==
    /\ call[p].kind = "ingest"
    /\ Create(p, Loop(items[p]))

ingest_photos_item(p) ==
    /\ pc[p] = "persist"
    /\ call[p].kind = "ingest"
    /\ Insert(p, Backfill(items[p][Len(inserted_ids[p]) + 1], catalog_id[p]))

\* ------------------------------------------------ POST /api/ingest/upload
\* content types and filename extensions, as the words the handler looks for
ContentTypes == {<<"application", "json">>, <<"text", "csv">>, <<"text", "plain">>}
Extensions == {"json", "csv", "txt"}

\* the body of an uploaded file: unparsable text, a JSON value that is neither
\* a list nor an object with "items", or a table of records (a JSON list or the
\* "items" list of a JSON object; the rows of a CSV text)
Bodies ==
    {[shape |-> sh, records |-> <<>>] : sh \in {"garbage", "scalar"}}
    \cup {[shape |-> "table", records |-> rs] : rs \in SeqsUpTo(RawRecords, MaxItems)}

Uploads ==
    {[content_type |-> ct, ext |-> e, shape |-> b.shape, records |-> b.records] :
        ct \in ContentTypes, e \in Extensions, b \in Bodies}

\* "json" in content_type
Contains(ct, word) == \E i \in DOMAIN ct : ct[i] = word

\* if "json" in content_type or file.filename.lower().endswith(".json") ... elif csv
FileKind(file) ==
    IF Contains(file.content_type, "json") \/ file.ext = "json" THEN "json"
    ELSE IF Contains(file.content_type, "csv") \/ file.ext = "csv" THEN "csv"
    ELSE "other"

\* p = Photo(filename=rec.get("filename") or rec.get("name") or "",
\*           catalog_id=rec.get("catalog_id") or catalog_id, rating=_coerce_int(...), ...)
JsonPhoto(rec, cid, now) ==
    Photo(OrElse(OrElse(rec.filename, rec.name), <<>>),
          IF rec.catalog_id # None THEN rec.catalog_id ELSE cid,
          _coerce_int(rec.rating), now)

\* p = Photo(filename=row.get("filename") or row.get("name") or ..., catalog_id=catalog_id, ...)
CsvPhoto(row, cid, now) ==
    Photo(OrElse(OrElse(row.filename, row.name), <<>>), cid, _coerce_int(row.rating), now)

\* pydantic validation of a constructed Photo: filename is a str, rating in 0..5
Validates(ph) == RatingValid(ph.rating)

\* the handler from the dispatch on the file kind to `if not items`
ParseUpload(file, cid, now) ==
    LET kind == FileKind(file)
        built == [i \in DOMAIN file.records |->
                    IF kind = "json" THEN JsonPhoto(file.records[i], cid, now)
                    ELSE CsvPhoto(file.records[i], cid, now)]
        invalid == \E i \in DOMAIN built : ~Validates(built[i])
        parsed == [Loop(built) EXCEPT
                     !.own = [i \in DOMAIN file.records |->
                                IF kind = "json" THEN file.records[i].catalog_id ELSE None]]
    IN
    IF kind = "json" THEN
        IF file.shape = "garbage" THEN Raise(HTTPException(400, "JSON parse error"))
        ELSE IF file.shape = "scalar" THEN Raise(HTTPException(400, "Invalid JSON structure"))
        ELSE IF invalid THEN Raise(HTTPException(400, "JSON parse error"))
        ELSE IF built = <<>> THEN Raise(HTTPException(400, "No items to ingest"))
        ELSE parsed
    ELSE IF kind = "csv" THEN
        IF invalid THEN Raise(HTTPException(400, "CSV parse error"))
        ELSE IF built = <<>> THEN Raise(HTTPException(400, "No items to ingest"))
        ELSE parsed
    ELSE Raise(HTTPException(415, "Unsupported file type"))

\* catalog_id = ensure_catalog_id(catalog, source), then the parse
ingest_upload(p) ==
    /\ Free(p)
    /\ \E name \in CatalogNames, file \in Uploads :
        Resolve(p, [kind |-> "upload", catalog |-> name, source |-> "upload",
                   own |-> <<>>],
                name # "", <<>>,
                ParseUpload(file, Lookup(name # "", name), ncalls + 1))

ingest_upload_create(p) ==
    /\ pc[p] = "create"
    /\ call[p].kind = "upload"
    /\ \E file \in Uploads :
        Create(p, ParseUpload(file, new_id(catalog), ncalls))

\* for item in items: data = item.model_dump(); new_id = create_document("photo", data)
ingest_upload_item(p) ==
    /\ pc[p] = "persist"
    /\ call[p].kind = "upload"
    /\ Insert(p, items[p][Len(inserted_ids[p]) + 1])

\* ------------------------------------------------- POST /api/ingest/lrcat
LrcatContentTypes == {<<"application", "octet-stream">>, <<"application", "x", "sqlite3">>}
LrcatExtensions == {"lrcat", "txt"}
BaseNames == {"", "a"}

\* (file.content_type or '').endswith('sqlite3')
EndsWith(ct, word) == ct # <<>> /\ ct[Len(ct)] = word

\* What the uploaded database answers to the handler's queries: the joined
\* query ("full"), only the fallback query on AgLibraryFile ("minimal", rows
\* without a rating column), or none of them ("unsupported").
Databases ==
    {[structure |-> "unsupported", rows |-> <<>>]}
    \cup {[structure |-> st, rows |-> rs] :
            st \in {"full", "minimal"}, rs \in SeqsUpTo(RawRows, MaxItems)}

\* the query loop, the fallback query and its except clause
QueryRows(db) ==
    IF db.structure = "unsupported"
    THEN Raise(HTTPException(400, "Unsupported Lightroom catalog structure"))
    ELSE IF db.structure = "minimal"
    THEN Loop([i \in DOMAIN db.rows |-> [db.rows[i] EXCEPT !.rating = ""]])
    ELSE Loop(db.rows)

\* filename = f"{baseName or ''}.{(extension or '').strip('.')}".strip('.')
\* Photo(filename=filename or (row.get('baseName') or ''), catalog_id=catalog_id,
\*       rating=_coerce_int(row.get('rating')), import_date=datetime.utcnow(), ...)
RowPhoto(row, cid, now) ==
    Photo(OrElse(Strip(row.baseName \o <<".">> \o Strip(row.extension, "."), "."),
                 row.baseName),
          cid, _coerce_int(row.rating), now)

\* the request is refused before any database call
Refuse(p, c, error) ==
    /\ ncalls' = ncalls + 1
    /\ call' = [call EXCEPT ![p] = c]
    /\ existing' = [existing EXCEPT ![p] = None]
    /\ catalog_id' = [catalog_id EXCEPT ![p] = None]
    /\ items' = [items EXCEPT ![p] = <<>>]
    /\ inserted_ids' = [inserted_ids EXCEPT ![p] = <<>>]
    /\ result' = [result EXCEPT ![p] = error]
    /\ pc' = [pc EXCEPT ![p] = "done"]
    /\ UNCHANGED <<storeVars, readVars>>

\* if not (filename.endswith('.lrcat') or content_type.endswith('sqlite3')): 415
\* cat_name = catalog or os.path.basename(file.filename).rsplit('.', 1)[0]
\* (sqlite3.connect opens any file: a file that is no database fails at the
\* first query, which is the "unsupported" structure)
ingest_lrcat(p) ==
    /\ Free(p)
    /\ \E name \in CatalogNames, base \in BaseNames, e \in LrcatExtensions,
          ct \in LrcatContentTypes, db \in Databases :
        LET cat_name == IF name # "" THEN name ELSE base
            c == [kind |-> "lrcat", catalog |-> cat_name, source |-> "lightroom",
                  own |-> <<>>]
        IN
        IF ~(e = "lrcat" \/ EndsWith(ct, "sqlite3"))
        THEN Refuse(p, c, HTTPException(415, "Provide a Lightroom .lrcat file"))
        ELSE Resolve(p, c, TRUE, <<>>, QueryRows(db))

ingest_lrcat_create(p) ==
    /\ pc[p] = "create"
    /\ call[p].kind = "lrcat"
    /\ \E db \in Databases : Create(p, QueryRows(db))

\* for row in rows: p = Photo(...); new_id = create_document("photo", p.model_dump())
\* A ValidationError of Photo(...) is not caught: the request ends in a 500.
ingest_lrcat_row(p) ==
    /\ pc[p] = "persist"
    /\ call[p].kind = "lrcat"
    /\ LET ph == RowPhoto(items[p][Len(inserted_ids[p]) + 1], catalog_id[p], utcnow) IN
        IF Validates(ph)
        THEN Insert(p, ph)
        ELSE /\ result' = [result EXCEPT ![p] = HTTPException(500, "ValidationError")]
             /\ pc' = [pc EXCEPT ![p] = "done"]
             /\ UNCHANGED <<storeVars, readVars, call, existing, catalog_id, items,
                            inserted_ids, ncalls>>

\* a failing insert that also takes back the call's last persisted record
create_document_fails_undo(p) ==
    /\ pc[p] = "persist"
    /\ photo' = IF inserted_ids[p] = <<>> THEN photo ELSE SubSeq(photo, 1, Len(photo) - 1)
    /\ result' = [result EXCEPT ![p] = HTTPException(500, "create_document failed")]
    /\ pc' = [pc EXCEPT ![p] = "done"]
    /\ UNCHANGED <<catalog, readVars, call, existing, catalog_id, items,
                   inserted_ids, ncalls>>

\* create_document("photo", ...) raises (the store is unreachable, the write is
\* refused): no handler catches it, the request ends in a 500
create_document_fails(p) ==
    /\ pc[p] = "persist"
    /\ result' = [result EXCEPT ![p] = HTTPException(500, "create_document failed")]
    /\ pc' = [pc EXCEPT ![p] = "done"]
    /\ UNCHANGED <<storeVars, readVars, call, existing, catalog_id, items,
                   inserted_ids, ncalls>>

Next ==
    \E p \in Procs :
        \/ ingest_photos(p)
        \/ ingest_photos_create(p)
        \/ ingest_photos_item(p)
        \/ ingest_upload(p)
        \/ ingest_upload_create(p)
        \/ ingest_upload_item(p)
        \/ ingest_lrcat(p)
        \/ ingest_lrcat_create(p)
        \/ ingest_lrcat_row(p)
        \/ create_document_fails(p)

Spec == Init /\ [][Next]_vars

\* Requests that do not overlap: a request is taken only when no handler is
\* between two of its database calls.
Quiet == \A q \in Procs : pc[q] \in {"idle", "done"}

NextSeq ==
    \E p \in Procs :
        \/ Quiet /\ ingest_photos(p)
        \/ ingest_photos_create(p)
        \/ ingest_photos_item(p)
        \/ Quiet /\ ingest_upload(p)
        \/ ingest_upload_create(p)
        \/ ingest_upload_item(p)
        \/ Quiet /\ ingest_lrcat(p)
        \/ ingest_lrcat_create(p)
        \/ ingest_lrcat_row(p)
        \/ create_document_fails(p)

SpecSeq == Init /\ [][NextSeq]_vars

\* ----------------------------------------------------- the read handlers
\* Query(..., le=200) of page_size
PageSizeMax == 200
Min(a, b) == IF a < b THEN a ELSE b
PageSizes == 1..Min(PageSizeMax, MaxStore + 1)

\* The stores the read handlers are run on: what POST /api/ingest leaves
\* behind when the items carry their own import_date.
StoredPhotos == {Photo(<<"a">>, None, r, t) : r \in {None, 3}, t \in 1..MaxTime}
Stores == SeqsUpTo(StoredPhotos, MaxStore)

InitRead ==
    /\ catalog = <<>>
    /\ photo \in Stores
    /\ pc = [p \in Procs |-> "idle"]
    /\ call = [p \in Procs |-> NoCall]
    /\ existing = [p \in Procs |-> None]
    /\ catalog_id = [p \in Procs |-> None]
    /\ items = [p \in Procs |-> <<>>]
    /\ inserted_ids = [p \in Procs |-> <<>>]
    /\ result = [p \in Procs |-> NoResult]
    /\ ncalls = 0
    /\ pages = NoSearch
    /\ fetched = NoFetch

\* build_search_query, for the rating filter: if rating is not None: query["rating"] = rating
Matches(doc, rating) == rating = None \/ doc.rating = rating

Matching(rating) == {i \in DOMAIN photo : Matches(photo[i], rating)}

\* .sort([("import_date", -1)]): every order of the matching documents that
\* is descending in import_date; the store fixes no order among equal dates
Sorted(rating) ==
    LET ids == Matching(rating)
        n == Cardinality(ids)
    IN {f \in [1..n -> ids] :
          /\ \A i, j \in 1..n : i # j => f[i] # f[j]
          /\ \A i, j \in 1..n : i < j => photo[f[i]].import_date >= photo[f[j]].import_date}

\* .skip((page - 1) * page_size).limit(page_size)
SkipLimit(order, page, page_size) ==
    SubSeq(order, (page - 1) * page_size + 1, Min(page * page_size, Len(order)))

\* a client starts paging with fixed filters and page size: GET /api/search, page 1
\* total = db["photo"].count_documents(query)
search_photos_first(rating, page_size) ==
    /\ \E order \in Sorted(rating) :
        pages' = [rating |-> rating, page_size |-> page_size,
                  total |-> Cardinality(Matching(rating)),
                  got |-> <<SkipLimit(order, 1, page_size)>>]
    /\ UNCHANGED <<storeVars, callVars, fetched>>

\* the client asks for the next page while the pages so far fall short of total
search_photos_next ==
    /\ pages.page_size > 0
    /\ Len(pages.got) * pages.page_size < pages.total
    /\ \E order \in Sorted(pages.rating) :
        pages' = [pages EXCEPT !.got =
                    Append(@, SkipLimit(order, Len(pages.got) + 1, pages.page_size))]
    /\ UNCHANGED <<storeVars, callVars, fetched>>

\* identifiers a client may send: well-formed ObjectId strings (stored or not)
\* and strings ObjectId() rejects
PhotoIds == [wellformed : BOOLEAN, oid : 1..(MaxStore + 1)]

\* try:
\*     doc = db["photo"].find_one({"_id": ObjectId(photo_id)})
\*     if not doc: raise HTTPException(status_code=404, detail="Not found")
TryFetch(pid) ==
    IF ~pid.wellformed THEN [raised |-> TRUE, status |-> 0, detail |-> "InvalidId"]
    ELSE IF pid.oid \notin DOMAIN photo
    THEN [raised |-> TRUE, status |-> 404, detail |-> "Not found"]
    ELSE [raised |-> FALSE, status |-> 200, detail |-> "ok"]

\* except Exception: raise HTTPException(status_code=400, detail="Invalid id")
\* (HTTPException is an Exception: the 404 raised in the try block is caught too)
ExceptException(r) ==
    IF r.raised THEN [raised |-> TRUE, status |-> 400, detail |-> "Invalid id"] ELSE r

get_photo(pid) ==
    /\ LET r == ExceptException(TryFetch(pid)) IN
        fetched' = [wellformed |-> pid.wellformed, oid |-> pid.oid,
                    status |-> r.status, detail |-> r.detail]
    /\ UNCHANGED <<storeVars, callVars, pages>>

NextRead ==
    \/ \E rating \in {None, 3}, page_size \in PageSizes : search_photos_first(rating, page_size)
    \/ search_photos_next
    \/ \E pid \in PhotoIds : get_photo(pid)

SpecRead == InitRead /\ [][NextRead]_vars

\* ================================================================ claims
Done(p) == pc[p] = "done"

\* the call of worker p has inserted a Catalog: its lookup missed and it holds an id
CreatedCatalog(p) == existing[p] = None /\ catalog_id[p] # None

MalformedOrUnsupported ==
    {"JSON parse error", "Invalid JSON structure", "Unsupported file type"}

\* C1: an upload that ends in a malformed-input or unsupported-media error has
\* persisted nothing, neither a Catalog nor a Photo.
C1_ErrorPersistsNothing ==
    \A p \in Procs :
        (Done(p) /\ call[p].kind = "upload" /\ result[p].detail \in MalformedOrUnsupported)
            => (~CreatedCatalog(p) /\ inserted_ids[p] = <<>>)

\* C2: fetch-by-id answers an unparsable identifier with invalid-identifier
\* (400) and a well-formed identifier of no stored photo with not-found (404).
C2_FetchErrorsDistinct ==
    fetched.status # 0 =>
        /\ ~fetched.wellformed => (fetched.status = 400 /\ fetched.detail = "Invalid id")
        /\ (fetched.wellformed /\ fetched.oid \notin DOMAIN photo)
              => (fetched.status = 404 /\ fetched.detail = "Not found")

\* C3: when requests do not overlap, two calls that resolved the same non-empty
\* catalog name hold the same catalog identifier, and the store holds at most
\* one Catalog per name.
C3_ResolveIdempotent ==
    /\ \A p, q \in Procs :
          (catalog_id[p] # None /\ catalog_id[q] # None
           /\ call[p].catalog # "" /\ call[p].catalog = call[q].catalog)
              => catalog_id[p] = catalog_id[q]
    /\ \A i, j \in DOMAIN catalog : catalog[i].name = catalog[j].name => i = j

\* two calls through different entry points resolved the same name: the first
\* created the Catalog, the second found it
C3_Witness ==
    /\ Done(1) /\ Done(2)
    /\ call[1].kind # call[2].kind
    /\ call[1].catalog = "a" /\ call[2].catalog = "a"
    /\ CreatedCatalog(1)
    /\ existing[2] # None /\ catalog_id[2] = existing[2]

\* C4: when the lookups of two calls for the same catalog name both miss (both
\* precede either create), then once both have created, the calls hold
\* different identifiers and each identifies a stored Catalog of that name.
C4_RaceDuplicates ==
    \A p, q \in Procs :
        (p # q /\ CreatedCatalog(p) /\ CreatedCatalog(q)
         /\ call[p].catalog = call[q].catalog)
            => /\ catalog_id[p] # catalog_id[q]
               /\ catalog_id[p] \in DOMAIN catalog /\ catalog_id[q] \in DOMAIN catalog
               /\ catalog[catalog_id[p]].name = call[p].catalog
               /\ catalog[catalog_id[q]].name = call[q].catalog

\* both lookups missed, both creates are done: two Catalogs of one name
C4_Witness ==
    /\ CreatedCatalog(1) /\ CreatedCatalog(2)
    /\ call[1].catalog = "a" /\ call[2].catalog = "a"
    /\ catalog_id[1] # catalog_id[2]
    /\ Cardinality({i \in DOMAIN catalog : catalog[i].name = "a"}) = 2

\* the document an item of worker p's batch is persisted as
Persisted(p, i) ==
    IF call[p].kind = "ingest" THEN Backfill(items[p][i], catalog_id[p]) ELSE items[p][i]

\* C5 (state part): a successful structured or upload ingestion of N >= 1 records
\* returns inserted = N and N distinct identifiers, the i-th being the
\* identifier under which the i-th record is stored.
C5_ResponseInOrder ==
    \A p \in Procs :
        (Done(p) /\ result[p].status = 200 /\ call[p].kind \in {"ingest", "upload"}
         /\ Len(items[p]) >= 1)
            => /\ result[p].inserted = Len(items[p])
               /\ Len(result[p].ids) = Len(items[p])
               /\ \A i \in DOMAIN items[p] :
                    /\ result[p].ids[i] \in DOMAIN photo
                    /\ photo[result[p].ids[i]] = Persisted(p, i)
               /\ \A i, j \in DOMAIN items[p] : i # j => result[p].ids[i] # result[p].ids[j]

\* C5 (step part): the photo collection grows by one document at a time, and
\* each new document's identifier is appended to the identifiers of one call.
C5_OneInsertPerId ==
    photo' # photo =>
        /\ Len(photo') = Len(photo) + 1
        /\ SubSeq(photo', 1, Len(photo)) = photo
        /\ \E p \in Procs : inserted_ids'[p] = Append(inserted_ids[p], Len(photo'))

\* C5: for N >= 1 well-formed records a successful ingestion persists exactly N
\* photos and returns inserted = N with the N identifiers in input order.
C5_ExactlyNInOrder == []C5_ResponseInOrder /\ [][C5_OneInsertPerId]_vars

\* two batches of two different records each, persisted alternately
C5_Witness ==
    /\ Done(1) /\ Done(2)
    /\ result[1].status = 200 /\ result[2].status = 200
    /\ call[1].kind = "upload" /\ call[2].kind = "ingest"
    /\ Len(items[1]) = 2 /\ items[1][1] # items[1][2]
    /\ Len(items[2]) = 2 /\ items[2][1] # items[2][2]
    /\ result[1].ids = <<1, 3>> /\ result[2].ids = <<2, 4>>

\* C6: no ingestion call ends in a success that reports zero inserted records.
C6_EmptyIsAnError ==
    \A p \in Procs : Done(p) => ~(result[p].status = 200 /\ result[p].inserted = 0)

\* C7: CSV and relational ingestion never end in an error because of a row:
\* no call ends in the CSV parse error or in the row's validation error.
C7_BadRowNeverAborts ==
    \A p \in Procs :
        Done(p) => result[p].detail \notin {"CSV parse error", "ValidationError"}

\* C8: every stored Photo with a catalog reference refers to a stored Catalog.
C8_CatalogRefExists ==
    \A i \in DOMAIN photo :
        photo[i].catalog_id # None => photo[i].catalog_id \in DOMAIN catalog

\* C9: every stored Photo has a non-empty filename.
C9_FilenameNonEmpty == \A i \in DOMAIN photo : photo[i].filename # <<>>

RECURSIVE Flatten(_)
Flatten(ss) == IF ss = <<>> THEN <<>> ELSE Head(ss) \o Flatten(Tail(ss))

\* C10: once a client has fetched all pages for fixed filters and page size,
\* the pages together hold every matching photo exactly once.
C10_PagesPartition ==
    (pages.page_size > 0 /\ Len(pages.got) * pages.page_size >= pages.total) =>
        LET all == Flatten(pages.got) IN
        /\ Len(all) = pages.total
        /\ \A id \in Matching(pages.rating) :
              Cardinality({i \in DOMAIN all : all[i] = id}) = 1

\* the catalog reference the i-th record of worker p's batch arrived with
OwnRef(p, i) ==
    IF call[p].kind = "ingest" THEN items[p][i].catalog_id ELSE call[p].own[i]

\* C11 (state part): every photo a structured or upload call has persisted
\* carries its record's own catalog reference if the record had one, and the
\* call's resolved catalog identifier otherwise.
C11_OwnRefPrecedes ==
    \A p \in Procs :
        call[p].kind \in {"ingest", "upload"} =>
            \A i \in DOMAIN inserted_ids[p] :
                /\ inserted_ids[p][i] \in DOMAIN photo
                /\ photo[inserted_ids[p][i]].catalog_id =
                      IF OwnRef(p, i) # None THEN OwnRef(p, i) ELSE catalog_id[p]

\* C11 (step part): the catalog is resolved once per call: while a call
\* persists its records its catalog identifier does not change and no Catalog
\* is inserted by it.
C11_ResolvedOnce ==
    \A p \in Procs :
        pc[p] = "persist" =>
            /\ catalog_id'[p] = catalog_id[p]
            /\ (pc'[p] # pc[p] \/ inserted_ids'[p] # inserted_ids[p]) => catalog' = catalog

\* C11: the resolved catalog identifier is back-filled only into records that
\* carry no catalog reference of their own; a record's own reference is
\* persisted unchanged, and the catalog is resolved once per call.
C11_BackfillOnlyAbsent == []C11_OwnRefPrecedes /\ [][C11_ResolvedOnce]_vars

\* one call has persisted a photo of the catalog its first record named and a
\* photo of the catalog the call resolved
C11_Witness ==
    \E p \in Procs :
        /\ Done(p) /\ result[p].status = 200
        /\ call[p].kind \in {"ingest", "upload"}
        /\ Len(result[p].ids) = 2
        /\ OwnRef(p, 1) = 1 /\ OwnRef(p, 2) = None
        /\ catalog_id[p] = 2
        /\ photo[result[p].ids[1]].catalog_id = 1
        /\ photo[result[p].ids[2]].catalog_id = 2

\* the document the i-th record of worker p's batch is persisted as, whatever
\* the entry point (a relational row is built when it is persisted, so its
\* import timestamp is the one the store holds)
PersistedAs(p, i, doc) ==
    IF call[p].kind = "lrcat"
    THEN RowPhoto(items[p][i], catalog_id[p], doc.import_date)
    ELSE Persisted(p, i)

\* C12 (state part): at every moment the records a call has persisted are the
\* first k-1 of its batch, stored in input order; a call that ended in a server
\* error stopped before its last record, and its k-1 records are in the store.
C12_PrefixPersisted ==
    \A p \in Procs :
        pc[p] \in {"persist", "done"} =>
            /\ Len(inserted_ids[p]) <= Len(items[p])
            /\ \A i \in DOMAIN inserted_ids[p] :
                 /\ inserted_ids[p][i] \in DOMAIN photo
                 /\ photo[inserted_ids[p][i]] = PersistedAs(p, i, photo[inserted_ids[p][i]])
            /\ \A i, j \in DOMAIN inserted_ids[p] :
                 i < j => inserted_ids[p][i] < inserted_ids[p][j]
            /\ (Done(p) /\ result[p].status = 500) => Len(inserted_ids[p]) < Len(items[p])

\* C12 (step part): the store only grows, by the next record of a call that is
\* still persisting; a call that stops before its last record ends in an error
\* and that step neither persists nor removes anything.
C12_NoRollback ==
    /\ photo' # photo =>
         /\ Len(photo') = Len(photo) + 1
         /\ SubSeq(photo', 1, Len(photo)) = photo
         /\ \E p \in Procs :
              /\ pc[p] = "persist"
              /\ inserted_ids'[p] = Append(inserted_ids[p], Len(photo'))
    /\ \A p \in Procs :
         (pc[p] = "persist" /\ pc'[p] = "done" /\ Len(inserted_ids'[p]) < Len(items[p]))
            => /\ result'[p].status >= 400
               /\ photo' = photo
               /\ inserted_ids'[p] = inserted_ids[p]

\* C12: batch persistence is sequential and best-effort: when the k-th record
\* fails the call ends in an error, the k-1 records before it stay in the
\* store, nothing is rolled back and no later record is persisted.
C12_BestEffortSequential == []C12_PrefixPersisted /\ [][C12_NoRollback]_vars

\* an upload whose second insert failed and a relational import whose second
\* row could not be built: the first record of each is in the store
C12_Witness ==
    /\ Done(1) /\ Done(2)
    /\ call[1].kind = "upload" /\ result[1].detail = "create_document failed"
    /\ call[2].kind = "lrcat" /\ result[2].detail = "ValidationError"
    /\ Len(items[1]) = 2 /\ Len(inserted_ids[1]) = 1
    /\ Len(items[2]) = 2 /\ Len(inserted_ids[2]) = 1
    /\ Len(photo) = 2
    /\ photo[inserted_ids[1][1]] = items[1][1]

====
